---- MODULE Spec2Model ----
(***************************************************************************)
(* IELTS Vocab Master: the data-access layer (remote word collection with  *)
(* a local-storage fallback, spaced-repetition progress), the quiz and    *)
(* exam sessions that drive it, the audio cache / playback pipeline and    *)
(* the text-to-speech retry loop.                                          *)
(*                                                                         *)
(* Time is counted in calendar days (Date.setDate arithmetic).             *)
(***************************************************************************)
EXTENDS Integers, Sequences, FiniteSets, TLC

VARIABLES
    clock,          \* the wall clock, new Date(), in days
    remote,         \* the documents of users/{userId}/words, in creation order
    localStorage,   \* the string stored under LOCAL_STORAGE_PREFIX + userId
    view,           \* the mounted session component: currentTab / Quiz mode
    words,          \* Quiz/Exam state: the shuffled words of the session
    currentIndex,   \* Quiz/Exam state: currentIndex (0-based, as in the code)
    isComplete,     \* Quiz/Exam state: isComplete
    timers,         \* pending setTimeout(() => setCurrentIndex(prev => prev + 1))
    last,           \* history: the data-access call made by the latest step
                    \* (all: what its getUserWords returned; result: what it
                    \* returned; prev: the word's sched entry before the call)
    sched,          \* history: per word id, the interval of the last recorded
                    \* successful recall and the failures recorded since
    ttsPc,          \* fetchTtsAudio: "idle", "waiting" (request in flight),
                    \* "backoff" (retry timer pending) or "done"
    retryCount,     \* fetchTtsAudio: retryCount of the current makeRequest
    ttsResult,      \* fetchTtsAudio: "none", "audio" or "error"
    responses,      \* history: the service responses received so far
    playingWord,    \* App state playingWord (NoWord: null)
    audioCache,     \* the keys of audioCache.current
    activeSource,   \* activeSourceRef.current: a source number, 0 for null
    sources,        \* the audio sources created so far: text and state
    calls,          \* playText / prefetchAudio invocations awaiting their audio
    ttsLog,         \* history: the texts for which text-to-speech was requested
    lastAudio,      \* history: the audio handler run by the latest step
    data,           \* App state data: the word of the displayed result, "" for null
    isSaved,        \* App state isSaved
    saves,          \* saveWordToProfile calls awaiting getDocs or addDoc
    answered,       \* history: the (id, stage) pairs passed to updateWordProgress
                    \* by the answers of the mounted session, in order
    loops           \* the prefetch loops started by handleSearch that still run:
                    \* the texts to prefetch, the position, and whether the loop
                    \* is about to call prefetchAudio ("call"), awaits it
                    \* ("fetch") or awaits its 1500 ms timer ("delay")

dbVars == <<clock, remote, localStorage, view, words, currentIndex,
            isComplete, timers, last, sched, answered>>

ttsVars == <<ttsPc, retryCount, ttsResult, responses>>

audioVars == <<playingWord, audioCache, activeSource, sources, calls, ttsLog,
               lastAudio>>

searchVars == <<data, isSaved, saves, loops>>

vars == <<clock, remote, localStorage, view, words, currentIndex,
          isComplete, timers, last, sched,
          ttsPc, retryCount, ttsResult, responses,
          playingWord, audioCache, activeSource, sources, calls, ttsLog,
          lastAudio, data, isSaved, saves, answered, loops>>

----------------------------------------------------------------------------
(* Bounds *)

MaxClock == 540         \* the clock stops advancing past this day
MaxTimers == 2          \* answer clicks accepted while advance timers are pending
MaxFails == 2           \* cap of the failure counter kept in sched
MaxRecords == 2         \* words saved in the two stores together

TickDays == {90}        \* the steps by which time passes between events
WordStrings == {"abate", "brisk"}   \* the words a search can return
UserId == "u1"

----------------------------------------------------------------------------
(* Values *)

Min(a, b) == IF a < b THEN a ELSE b
Max(a, b) == IF a > b THEN a ELSE b

\* Timestamps: "ts" is an object with toDate() (Firestore Timestamp or the
\* fake one), "iso" an ISO string, "null"/"undef" the absent values.
Ts(t) == [k |-> "ts", t |-> t]
Iso(t) == [k |-> "iso", t |-> t]
Null == [k |-> "null", t |-> 0]
Undef == [k |-> "undef", t |-> 0]

RemoteId(n) == [loc |-> FALSE, n |-> n]
LocalId(n) == [loc |-> TRUE, n |-> n]
Ids == [loc : BOOLEAN, n : 1..Cardinality(WordStrings)]
NoId == [loc |-> FALSE, n |-> 0]

\* wordId.startsWith('local_')
IsLocalId(id) == id.loc

\* Spaced Repetition Intervals in days
SRS_INTERVALS == <<1, 3, 7, 14, 30, 90>>

\* Errors of the remote store: error.code ("" when the error has none) and
\* what error.message says ("permissions": it includes that word).
Ok == [ok |-> TRUE, code |-> "", msg |-> ""]
Err(code, msg) == [ok |-> FALSE, code |-> code, msg |-> msg]
RemoteErrors ==
    { Err("unavailable", "offline"), Err("permission-denied", "permissions"),
      Err("failed-precondition", "precondition"), Err("not-found", "not found"),
      Err("deadline-exceeded", "deadline"), Err("", "permissions"),
      Err("", "network") }
Outcomes == {Ok} \cup RemoteErrors
\* Reads and updates only look at whether the error has a code.
CallOutcomes == {Ok, Err("unavailable", "offline"), Err("", "network")}
AlreadySaved == Err("", "already saved")   \* new Error("You have already saved this word.")
LocalIdError == Err("", "local id")        \* new Error("Local ID, triggering fallback")

\* The strings local storage can hold under the user's key.
LsNull == [kind |-> "null", val |-> <<>>]           \* getItem returns null
LsGarbage == [kind |-> "garbage", val |-> <<>>]     \* not JSON
LsObject == [kind |-> "object", val |-> <<>>]       \* JSON, not an array
LsArray(s) == [kind |-> "array", val |-> s]         \* JSON array of records

SeqMap(F(_), s) == [i \in 1..Len(s) |-> F(s[i])]
SelectIndex(s, P(_)) ==
    IF \E i \in 1..Len(s) : P(s[i])
    THEN CHOOSE i \in 1..Len(s) : P(s[i]) /\ \A j \in 1..(i - 1) : ~P(s[j])
    ELSE 0
Range(s) == {s[i] : i \in 1..Len(s)}

----------------------------------------------------------------------------
(* Local storage helpers *)

createFakeTimestamp(d) == Ts(d.t)

serializeWord(word, now) ==
    [word EXCEPT
        !.createdAt = IF word.createdAt.k = "ts" THEN Iso(word.createdAt.t) ELSE Iso(now),
        !.nextReviewAt = IF word.nextReviewAt.k = "ts" THEN Iso(word.nextReviewAt.t) ELSE Iso(now),
        !.lastReviewedAt = IF word.lastReviewedAt.k = "ts" THEN Iso(word.lastReviewedAt.t) ELSE Null]

deserializeOne(w) ==
    [w EXCEPT
        !.createdAt = createFakeTimestamp(w.createdAt),
        !.nextReviewAt = createFakeTimestamp(w.nextReviewAt),
        !.lastReviewedAt = IF w.lastReviewedAt.k = "iso"
                           THEN createFakeTimestamp(w.lastReviewedAt) ELSE Undef]

deserializeWords(json) ==
    IF json.kind = "array" THEN SeqMap(deserializeOne, json.val) ELSE <<>>

\* localData || '[]'
OrEmptyArray(localData) == IF localData.kind = "null" THEN LsArray(<<>>) ELSE localData

\* JSON.stringify(list.map(serializeWord))
StringifyWords(list, now) == LsArray([i \in 1..Len(list) |-> serializeWord(list[i], now)])

----------------------------------------------------------------------------
(* services/db: pure parts *)

\* Variant: the catch forgets the not-found code (database not created).
IsFirestoreErrorNoNotFound(e) ==
    \/ e.code = "permission-denied"
    \/ e.code = "unavailable"
    \/ e.code = "failed-precondition"
    \/ e.msg = "permissions"

\* The catch of saveWordToProfile: which errors fall back to local storage.
IsFirestoreError(e) ==
    \/ e.code = "permission-denied"
    \/ e.code = "unavailable"
    \/ e.code = "failed-precondition"
    \/ e.code = "not-found"
    \/ e.msg = "permissions"

\* Variant: the stage is capped at the last index of the table.
NewStageCapFive(isCorrect, currentStage) ==
    IF isCorrect
    THEN Min(currentStage + 1, Len(SRS_INTERVALS) - 1)
    ELSE Max(0, currentStage - 1)

\* Variant: a failure decrements the stage without the floor at 0.
NewStageNoFloor(isCorrect, currentStage) ==
    IF isCorrect
    THEN Min(currentStage + 1, Len(SRS_INTERVALS))
    ELSE currentStage - 1

\* Variant: a failure resets the stage to 0.
NewStageReset(isCorrect, currentStage) ==
    IF isCorrect
    THEN Min(currentStage + 1, Len(SRS_INTERVALS))
    ELSE 0

\* updateWordProgress, lines 251-258: the stage to write.
NewStage(isCorrect, currentStage) ==
    IF isCorrect
    THEN Min(currentStage + 1, Len(SRS_INTERVALS))
    ELSE Max(0, currentStage - 1)

\* SRS_INTERVALS[Math.min(newStage - 1, SRS_INTERVALS.length - 1)] || 1
IntervalAt(newStage) ==
    LET i == Min(newStage - 1, Len(SRS_INTERVALS) - 1)
    IN  IF i >= 0 /\ i < Len(SRS_INTERVALS) /\ SRS_INTERVALS[i + 1] # 0
        THEN SRS_INTERVALS[i + 1]
        ELSE 1

\* updateWordProgress, lines 249-258: days added to "now" for the next review.
DaysToAdd(isCorrect, currentStage) ==
    IF isCorrect THEN IntervalAt(NewStage(isCorrect, currentStage)) ELSE 0

\* The record saveWordToProfile creates (remote: addDoc turns Dates into
\* Timestamps; local: createFakeTimestamp).
NewWord(id, w, now) ==
    [id |-> id, word |-> w, userId |-> UserId,
     createdAt |-> Ts(now), nextReviewAt |-> Ts(now),
     srsStage |-> 0, lastReviewedAt |-> Undef, isInFFL |-> FALSE]

HasWord(list, w) == \E i \in 1..Len(list) : list[i].word = w
IndexOfId(list, id) == LET P(r) == r.id = id IN SelectIndex(list, P)

\* Variant: no fallback read, a failed remote read yields the empty list.
getUserWordsNoFallback(rem, ls, e) ==
    IF e.ok THEN rem ELSE <<>>

\* getUserWords: the remote documents, or on any error the local list.
getUserWords(rem, ls, e) ==
    IF e.ok THEN rem ELSE deserializeWords(OrEmptyArray(ls))

\* The filter of getDueWords.
IsDue(word, now) ==
    \/ word.nextReviewAt.k \in {"null", "undef"}
    \/ word.nextReviewAt.t <= now

getDueWords(rem, ls, e, now) ==
    SelectSeq(getUserWords(rem, ls, e), LAMBDA w : IsDue(w, now))

getFFLWords(rem, ls, e) ==
    SelectSeq(getUserWords(rem, ls, e), LAMBDA w : w.isInFFL = TRUE)

\* The error that reaches the catch of an update of document id.
UpdateError(rem, id, e) ==
    IF IsLocalId(id) THEN LocalIdError
    ELSE IF e.ok /\ IndexOfId(rem, id) = 0 THEN Err("not-found", "not found")
    ELSE e

\* Where updateWordProgress writes: "remote", "local" or "none".
UpdateTarget(rem, ls, id, e) ==
    LET err == UpdateError(rem, id, e)
    IN  IF err.ok THEN "remote"
        ELSE IF (IsLocalId(id) \/ err.code # "")
                /\ IndexOfId(deserializeWords(OrEmptyArray(ls)), id) # 0
        THEN "local"
        ELSE "none"

\* Where markWordAsForgot writes (its catch has no condition on the error).
ForgotTarget(rem, ls, id, e) ==
    LET err == UpdateError(rem, id, e)
    IN  IF err.ok THEN "remote"
        ELSE IF IndexOfId(deserializeWords(OrEmptyArray(ls)), id) # 0
        THEN "local"
        ELSE "none"

NoLast ==
    [op |-> "none", id |-> NoId, word |-> "", correct |-> FALSE, stage |-> 0,
     now |-> 0, err |-> Ok, wrote |-> "none", ret |-> "void", all |-> <<>>,
     result |-> <<>>, prev |-> [succ |-> 0, fails |-> 0]]

NoSched == [succ |-> 0, fails |-> 0]

----------------------------------------------------------------------------
(* services/db: the operations on the two stores *)

SetWord(list, i, rec) == [list EXCEPT ![i] = rec]

\* Variant: the progress update also flags the word as forgotten.
RemoteProgressFlagging(rem, id, stage, next, now) ==
    LET i == IndexOfId(rem, id)
    IN  SetWord(rem, i, [rem[i] EXCEPT !.srsStage = stage,
                                       !.nextReviewAt = Ts(next),
                                       !.lastReviewedAt = Ts(now),
                                       !.isInFFL = TRUE])

\* updateDoc(wordRef, {srsStage, nextReviewAt, lastReviewedAt: serverTimestamp()})
RemoteProgress(rem, id, stage, next, now) ==
    LET i == IndexOfId(rem, id)
    IN  SetWord(rem, i, [rem[i] EXCEPT !.srsStage = stage,
                                       !.nextReviewAt = Ts(next),
                                       !.lastReviewedAt = Ts(now)])

\* Variant: the fallback update stores only the record it has updated.
LocalProgressOnlyUpdated(ls, id, stage, next, now) ==
    LET list == deserializeWords(OrEmptyArray(ls))
        i == IndexOfId(list, id)
    IN  StringifyWords(
            << [list[i] EXCEPT !.srsStage = stage,
                               !.nextReviewAt = createFakeTimestamp(Ts(next)),
                               !.lastReviewedAt = createFakeTimestamp(Ts(now))] >>,
            now)

\* The fallback update of updateWordProgress, lines 275-285.
LocalProgress(ls, id, stage, next, now) ==
    LET list == deserializeWords(OrEmptyArray(ls))
        i == IndexOfId(list, id)
    IN  StringifyWords(
            SetWord(list, i, [list[i] EXCEPT !.srsStage = stage,
                                             !.nextReviewAt = createFakeTimestamp(Ts(next)),
                                             !.lastReviewedAt = createFakeTimestamp(Ts(now))]),
            now)

\* History: what a recorded recall adds to the word's schedule history.
SchedAfter(h, isCorrect, days) ==
    IF isCorrect THEN [succ |-> days, fails |-> 0]
    ELSE [succ |-> h.succ, fails |-> Min(h.fails + 1, MaxFails)]

\* updateWordProgress(userId, wordId, isCorrect, currentStage); e is the
\* outcome of the remote updateDoc.
updateWordProgress(wordId, isCorrect, currentStage, e) ==
    LET newStage == NewStage(isCorrect, currentStage)
        next == clock + DaysToAdd(isCorrect, currentStage)
        target == UpdateTarget(remote, localStorage, wordId, e)
    IN  /\ remote' = IF target = "remote"
                     THEN RemoteProgress(remote, wordId, newStage, next, clock)
                     ELSE remote
        /\ localStorage' = IF target = "local"
                           THEN LocalProgress(localStorage, wordId, newStage, next, clock)
                           ELSE localStorage
        /\ last' = [NoLast EXCEPT !.op = "updateWordProgress", !.id = wordId,
                                  !.correct = isCorrect, !.stage = currentStage,
                                  !.now = clock, !.wrote = target,
                                  !.err = UpdateError(remote, wordId, e),
                                  !.prev = sched[wordId]]
        /\ sched' = IF target = "none" THEN sched
                    ELSE [sched EXCEPT ![wordId] =
                            SchedAfter(@, isCorrect, next - clock)]

\* markWordAsForgot(userId, wordId); e is the outcome of the remote updateDoc.
markWordAsForgot(wordId, e) ==
    LET target == ForgotTarget(remote, localStorage, wordId, e)
        list == deserializeWords(OrEmptyArray(localStorage))
    IN  /\ remote' = IF target = "remote"
                     THEN LET i == IndexOfId(remote, wordId)
                          IN  SetWord(remote, i, [remote[i] EXCEPT !.isInFFL = TRUE])
                     ELSE remote
        /\ localStorage' = IF target = "local"
                           THEN LET i == IndexOfId(list, wordId)
                                IN  StringifyWords(
                                        SetWord(list, i, [list[i] EXCEPT !.isInFFL = TRUE]),
                                        clock)
                           ELSE localStorage
        /\ last' = [NoLast EXCEPT !.op = "markWordAsForgot", !.id = wordId,
                                  !.now = clock, !.wrote = target,
                                  !.err = UpdateError(remote, wordId, e)]
        /\ UNCHANGED sched

\* Variant: the try does not look at the snapshot of the duplicate query.
SaveCaughtNoDuplicateCheck(w, eq, ea) ==
    IF ~eq.ok THEN eq ELSE ea

\* saveWordToProfile(userId, wordData): eq is the outcome of the duplicate
\* query (getDocs), ea the outcome of addDoc.  The error that reaches the
\* catch is the first failure, or the "already saved" error thrown in the try.
SaveCaught(w, eq, ea) ==
    IF ~eq.ok THEN eq
    ELSE IF HasWord(remote, w) THEN AlreadySaved
    ELSE ea

StoredCount == Len(remote) + Len(deserializeWords(OrEmptyArray(localStorage)))

SaveWord(w, eq, ea) ==
    /\ StoredCount < MaxRecords
    /\ (ea.ok \/ (eq.ok /\ ~HasWord(remote, w)))     \* addDoc is reached
    /\ LET caught == SaveCaught(w, eq, ea)
           list == deserializeWords(OrEmptyArray(localStorage))
           base == [NoLast EXCEPT !.op = "saveWordToProfile", !.word = w,
                                  !.now = clock, !.err = caught]
       IN  /\ IF caught.ok
              THEN /\ remote' = Append(remote, NewWord(RemoteId(Len(remote) + 1), w, clock))
                   /\ localStorage' = localStorage
                   /\ last' = [base EXCEPT !.wrote = "remote", !.ret = "true",
                                           !.id = RemoteId(Len(remote) + 1)]
              ELSE IF IsFirestoreError(caught)
              THEN IF HasWord(list, w)
                   THEN /\ UNCHANGED <<remote, localStorage>>
                        /\ last' = [base EXCEPT !.ret = "throw", !.err = AlreadySaved]
                   ELSE /\ remote' = remote
                        /\ localStorage' =
                               StringifyWords(
                                   Append(list, NewWord(LocalId(Len(list) + 1), w, clock)),
                                   clock)
                        /\ last' = [base EXCEPT !.wrote = "local", !.ret = "true",
                                                !.id = LocalId(Len(list) + 1)]
              ELSE /\ UNCHANGED <<remote, localStorage>>
                   /\ last' = [base EXCEPT !.ret = "throw"]
    /\ UNCHANGED <<clock, view, words, currentIndex, isComplete, timers, sched,
                   answered>>
    /\ UNCHANGED <<ttsVars, audioVars, searchVars>>

----------------------------------------------------------------------------
(* components/Quiz and components/Exam: one session at a time *)

\* fetchedWords.sort(() => Math.random() - 0.5): any order of the list.
Shuffles(list) ==
    LET n == Len(list)
        Bij == { p \in [1..n -> 1..n] : \A i, j \in 1..n : p[i] = p[j] => i = j }
    IN  { [i \in 1..n |-> list[p[i]]] : p \in Bij }

\* The fields of a loaded word that the session's handlers read.
Loaded(w) == [id |-> w.id, word |-> w.word, srsStage |-> w.srsStage]

Mount(v, shuffled) ==
    /\ view' = v
    /\ words' = SeqMap(Loaded, shuffled)
    /\ currentIndex' = 0
    /\ isComplete' = FALSE
    /\ timers' = 0
    /\ answered' = <<>>

\* Quiz mounted with mode 'due': loadWords calls getDueWords.
OpenDueQuiz(e) ==
    /\ view = "search"
    /\ LET fetched == getDueWords(remote, localStorage, e, clock)
       IN  /\ \E shuffled \in Shuffles(fetched) : Mount("due", shuffled)
           /\ last' = [NoLast EXCEPT !.op = "getDueWords", !.now = clock,
                                     !.err = e, !.ret = "list", !.result = fetched,
                                     !.all = getUserWords(remote, localStorage, e)]
    /\ UNCHANGED <<clock, remote, localStorage, sched>>
    /\ UNCHANGED <<ttsVars, audioVars, searchVars>>

\* Quiz mounted with mode 'ffl': loadWords calls getFFLWords.
OpenFFLQuiz(e) ==
    /\ view = "search"
    /\ LET fetched == getFFLWords(remote, localStorage, e)
       IN  /\ \E shuffled \in Shuffles(fetched) : Mount("ffl", shuffled)
           /\ last' = [NoLast EXCEPT !.op = "getFFLWords", !.now = clock,
                                     !.err = e, !.ret = "list", !.result = fetched,
                                     !.all = getUserWords(remote, localStorage, e)]
    /\ UNCHANGED <<clock, remote, localStorage, sched>>
    /\ UNCHANGED <<ttsVars, audioVars, searchVars>>

\* Exam mounted: loadAllWords calls getUserWords.
OpenExam(e) ==
    /\ view = "search"
    /\ LET fetched == getUserWords(remote, localStorage, e)
       IN  /\ \E shuffled \in Shuffles(fetched) : Mount("exam", shuffled)
           /\ last' = [NoLast EXCEPT !.op = "getUserWords", !.now = clock,
                                     !.err = e, !.ret = "list", !.result = fetched,
                                     !.all = fetched]
    /\ UNCHANGED <<clock, remote, localStorage, sched>>
    /\ UNCHANGED <<ttsVars, audioVars, searchVars>>

\* The card with the answer buttons is rendered.
CanAnswer ==
    /\ ~isComplete
    /\ Len(words) > 0
    /\ currentIndex < Len(words)
    /\ timers < MaxTimers

\* "Move next" of handleResult / handleNext.
MoveNext ==
    IF currentIndex < Len(words) - 1
    THEN /\ timers' = timers + 1
         /\ UNCHANGED <<isComplete, currentIndex>>
    ELSE /\ isComplete' = TRUE
         /\ UNCHANGED <<timers, currentIndex>>

\* Quiz.handleResult(correct) in mode 'due'.
DueAnswer(correct, e) ==
    /\ view = "due"
    /\ CanAnswer
    /\ LET currentWord == words[currentIndex + 1]
       IN  /\ updateWordProgress(currentWord.id, correct, currentWord.srsStage, e)
           /\ answered' = Append(answered, [id |-> currentWord.id,
                                            stage |-> currentWord.srsStage])
    /\ MoveNext
    /\ UNCHANGED <<clock, view, words>>
    /\ UNCHANGED <<ttsVars, audioVars, searchVars>>

\* Variant: handleResult saves the progress in every mode.
SavesProgressAlways(mode) == TRUE

\* handleResult, line 78: "Only update SRS stats if in 'due' mode".
SavesProgress(mode) == mode = "due"

\* Quiz.handleResult(correct) in mode 'ffl': no progress is saved.
FFLAnswer(correct) ==
    /\ view = "ffl"
    /\ CanAnswer
    /\ MoveNext
    /\ LET currentWord == words[currentIndex + 1]
       IN  IF SavesProgress("ffl")
           THEN \E e \in CallOutcomes :
                    updateWordProgress(currentWord.id, correct, currentWord.srsStage, e)
           ELSE /\ last' = [NoLast EXCEPT !.op = "fflAnswer", !.id = currentWord.id,
                                          !.correct = correct, !.now = clock]
                /\ UNCHANGED <<remote, localStorage, sched>>
    /\ UNCHANGED <<clock, view, words, answered>>
    /\ UNCHANGED <<ttsVars, audioVars, searchVars>>

\* Exam.handleNext(forgot).
ExamAnswer(forgot, e) ==
    /\ view = "exam"
    /\ CanAnswer
    /\ IF forgot
       THEN markWordAsForgot(words[currentIndex + 1].id, e)
       ELSE /\ last' = [NoLast EXCEPT !.op = "examRemember",
                                      !.id = words[currentIndex + 1].id, !.now = clock]
            /\ UNCHANGED <<remote, localStorage, sched>>
    /\ MoveNext
    /\ UNCHANGED <<clock, view, words, answered>>
    /\ UNCHANGED <<ttsVars, audioVars, searchVars>>

\* The advance timer fires: setCurrentIndex(prev => prev + 1).  Rendering
\* words[currentIndex] past the end (and not complete) throws.
TimerFire ==
    /\ view \in {"due", "ffl", "exam"}
    /\ timers > 0
    /\ timers' = timers - 1
    /\ currentIndex' = currentIndex + 1
    /\ view' = IF ~isComplete /\ currentIndex + 1 >= Len(words) THEN "crashed" ELSE view
    /\ last' = NoLast
    /\ UNCHANGED <<clock, remote, localStorage, words, isComplete, sched, answered>>
    /\ UNCHANGED <<ttsVars, audioVars, searchVars>>

\* onClose / a tab switch unmounts the session (a page reload after a crash).
CloseSession ==
    /\ view # "search"
    /\ Mount("search", <<>>)
    /\ last' = NoLast
    /\ UNCHANGED <<clock, remote, localStorage, sched>>
    /\ UNCHANGED <<ttsVars, audioVars, searchVars>>

\* Time passes.
Tick(d) ==
    /\ clock + d <= MaxClock
    /\ clock' = clock + d
    /\ last' = NoLast
    /\ UNCHANGED <<remote, localStorage, view, words, currentIndex, isComplete,
                   timers, sched, answered>>
    /\ UNCHANGED <<ttsVars, audioVars, searchVars>>

----------------------------------------------------------------------------
(* Texts: strings as sequences of characters *)

Texts == { <<>>, <<" ">>, <<"a">>, <<"A", " ">>, <<"b">> }

RECURSIVE TrimStart(_)
TrimStart(t) == IF t # <<>> /\ Head(t) = " " THEN TrimStart(Tail(t)) ELSE t

RECURSIVE TrimEnd(_)
TrimEnd(t) ==
    IF t # <<>> /\ t[Len(t)] = " " THEN TrimEnd(SubSeq(t, 1, Len(t) - 1)) ELSE t

\* text.trim()
Trim(t) == TrimEnd(TrimStart(t))

LowerChar(c) == IF c = "A" THEN "a" ELSE IF c = "B" THEN "b" ELSE c

\* text.toLowerCase()
ToLowerCase(t) == [i \in 1..Len(t) |-> LowerChar(t[i])]

----------------------------------------------------------------------------
(* The idle state of each part *)

DbIdle ==
    /\ clock = 0
    /\ remote = <<>>
    /\ localStorage = LsNull
    /\ view = "search"
    /\ words = <<>>
    /\ currentIndex = 0
    /\ isComplete = FALSE
    /\ timers = 0
    /\ last = NoLast
    /\ sched = [i \in Ids |-> NoSched]
    /\ answered = <<>>

TtsIdle ==
    /\ ttsPc = "idle"
    /\ retryCount = 0
    /\ ttsResult = "none"
    /\ responses = <<>>

\* playingWord = null
NoWord == <<"null", "null">>

NoAudio ==
    [op |-> "none", text |-> <<>>, seen |-> NoWord, cached |-> FALSE,
     outcome |-> "none", stopped |-> 0, started |-> 0, threw |-> FALSE]

AudioIdle ==
    /\ playingWord = NoWord
    /\ audioCache = {}
    /\ activeSource = 0
    /\ sources = <<>>
    /\ calls = <<>>
    /\ ttsLog = <<>>
    /\ lastAudio = NoAudio

\* No result is displayed and no save is in flight.
SearchIdle ==
    /\ data = ""
    /\ isSaved = FALSE
    /\ saves = <<>>
    /\ loops = <<>>

----------------------------------------------------------------------------
(* The data-layer specification *)

InitDb ==
    /\ clock = 0
    /\ remote = <<>>
    /\ localStorage \in {LsNull, LsGarbage, LsObject}
    /\ view = "search"
    /\ words = <<>>
    /\ currentIndex = 0
    /\ isComplete = FALSE
    /\ timers = 0
    /\ last = NoLast
    /\ sched = [i \in Ids |-> NoSched]
    /\ answered = <<>>
    /\ TtsIdle
    /\ AudioIdle
    /\ SearchIdle

\* An answer given after the advance timer of the previous one has fired
\* (answers that overtake the timer are part of SpecFfl).
DueAnswerSettled(correct, e) ==
    /\ timers = 0
    /\ DueAnswer(correct, e)

\* The store specification: searches save words (to the remote store or, on
\* failure, to local storage) and due-review quizzes record recalls.
NextDb ==
    \/ \E w \in WordStrings, eq \in Outcomes, ea \in Outcomes : SaveWord(w, eq, ea)
    \/ \E e \in CallOutcomes : OpenDueQuiz(e)
    \/ \E c \in BOOLEAN, e \in CallOutcomes : DueAnswerSettled(c, e)
    \/ TimerFire
    \/ CloseSession

Spec == InitDb /\ [][NextDb]_vars

\* The progression specification: one word is saved (in the remote store or,
\* on failure, in local storage) and reviewed over the days.
SrsWords == {"abate"}

SaveFirstWord(w, eq, ea) ==
    /\ StoredCount = 0
    /\ SaveWord(w, eq, ea)

NextSrs ==
    \/ \E w \in SrsWords, eq \in Outcomes, ea \in Outcomes : SaveFirstWord(w, eq, ea)
    \/ \E e \in CallOutcomes : OpenDueQuiz(e)
    \/ \E c \in BOOLEAN, e \in CallOutcomes : DueAnswer(c, e)
    \/ CloseSession
    \/ \E d \in TickDays : Tick(d)

SpecSrs == InitDb /\ [][NextSrs]_vars

\* The forgotten-list specification: exam, due-review quiz and FFL practice
\* over one word.
NextFfl ==
    \/ \E w \in SrsWords, eq \in Outcomes, ea \in Outcomes : SaveWord(w, eq, ea)
    \/ \E e \in CallOutcomes : OpenDueQuiz(e)
    \/ \E e \in CallOutcomes : OpenFFLQuiz(e)
    \/ \E e \in CallOutcomes : OpenExam(e)
    \/ \E c \in BOOLEAN, e \in CallOutcomes : DueAnswer(c, e)
    \/ \E c \in BOOLEAN : FFLAnswer(c)
    \/ \E f \in BOOLEAN, e \in CallOutcomes : ExamAnswer(f, e)
    \/ CloseSession

SpecFfl == InitDb /\ [][NextFfl]_vars

TypeOkDb ==
    /\ clock \in 0..MaxClock
    /\ view \in {"search", "due", "ffl", "exam", "crashed"}
    /\ timers \in 0..MaxTimers

----------------------------------------------------------------------------
(* Properties of the data layer *)

\* The records as they are stored: the remote documents, and the JSON
\* records held in local storage (none when it holds no JSON array).
LocalRaw == IF localStorage.kind = "array" THEN localStorage.val ELSE <<>>
StoreOf(store) == IF store = "remote" THEN remote ELSE LocalRaw
StoredRecord(store, id) == StoreOf(store)[IndexOfId(StoreOf(store), id)]
IdsOf(list) == {list[i].id : i \in 1..Len(list)}
AllStored == Range(remote) \cup Range(LocalRaw)

RecordedRecall(l) == l.op = "updateWordProgress" /\ l.wrote # "none"

ReadsStoreOf(id, e) == IF IsLocalId(id) THEN ~e.ok ELSE e.ok

FailedRecallWritten ==
    (RecordedRecall(last) /\ ~last.correct) =>
        LET r == StoredRecord(last.wrote, last.id)
        IN  /\ r.srsStage = (IF last.stage - 1 > 0 THEN last.stage - 1 ELSE 0)
            /\ r.nextReviewAt.t = last.now

\* C2 as stated: an incorrect answer at stage s writes stage max(0, s-1) and
\* nextReviewAt = now, and the word is returned by the next getDueWords call.
C2_Original ==
    /\ FailedRecallWritten
    /\ last.op = "getDueWords" =>
          \A id \in Ids : sched[id].fails > 0 => id \in IdsOf(last.result)

\* C2 (amended): an incorrect answer at stage s writes stage max(0, s-1) and
\* nextReviewAt = now, and the word is returned by the next getDueWords call
\* that reads the store holding the record (the remote collection when the
\* remote read succeeds, the local list when it fails).
C2_FailureRegressesStage ==
    /\ FailedRecallWritten
    /\ last.op = "getDueWords" =>
          \A id \in Ids :
              (sched[id].fails > 0 /\ ReadsStoreOf(id, last.err))
                  => id \in IdsOf(last.result)

C2_Witness ==
    /\ last.op = "getDueWords"
    /\ clock > 0
    /\ \E i \in 1..Len(last.result) :
          /\ sched[last.result[i].id].fails > 0
          /\ last.result[i].srsStage > 0
          /\ last.result[i].nextReviewAt.t = clock

\* C3 as stated: the srsStage of every stored word is within 0..5.
C3_StageWithinFive ==
    \A r \in AllStored : r.srsStage \in 0..5

\* The interval a recorded successful recall has scheduled.
ScheduledDays == StoredRecord(last.wrote, last.id).nextReviewAt.t - last.now

\* C10 as stated: a successful recall schedules a strictly longer interval
\* than the previous successful recall (90 stays 90), and after a failed
\* recall the next successful recall schedules a strictly shorter interval
\* than the one scheduled before the failure.
C10_Original ==
    (RecordedRecall(last) /\ last.correct /\ last.prev.succ > 0) =>
        IF last.prev.fails = 0
        THEN \/ ScheduledDays > last.prev.succ
             \/ (last.prev.succ = 90 /\ ScheduledDays = 90)
        ELSE ScheduledDays < last.prev.succ

\* C10 (amended): a successful recall that follows a successful recall
\* schedules a strictly longer interval (90 stays 90); after failed recalls
\* the next successful recall schedules an interval that is not longer than
\* the one scheduled before the failure, and after a single failure exactly
\* that interval again (not a strictly shorter one).
C10_IntervalsGrowAndShrink ==
    (RecordedRecall(last) /\ last.correct /\ last.prev.succ > 0) =>
        IF last.prev.fails = 0
        THEN \/ ScheduledDays > last.prev.succ
             \/ (last.prev.succ = 90 /\ ScheduledDays = 90)
        ELSE /\ ScheduledDays <= last.prev.succ
             /\ last.prev.fails = 1 => ScheduledDays = last.prev.succ

C10_Witness ==
    /\ RecordedRecall(last)
    /\ last.correct
    /\ last.prev = [succ |-> 7, fails |-> 1]
    /\ ScheduledDays = 7

\* The ids of the words getFFLWords returns when its read has outcome e.
FFLIdsRead(rem, ls, e) == IdsOf(getFFLWords(rem, ls, e))

\* C4 as stated: after 'I Forgot' in the due-review quiz the word's stored
\* isInFFL is true and getFFLWords returns it.
C4_Original ==
    (RecordedRecall(last) /\ ~last.correct) =>
        /\ StoredRecord(last.wrote, last.id).isInFFL = TRUE
        /\ \E e \in CallOutcomes : last.id \in FFLIdsRead(remote, localStorage, e)

\* C4 (amended): an answer in the due-review quiz, 'I Forgot' included,
\* leaves the isInFFL flag of every stored word as it was, so getFFLWords
\* returns the word afterwards only if it was flagged before (by the exam's
\* 'I Forgot'); a flagged word stays flagged.
C4_QuizKeepsForgottenFlag ==
    [][ last'.op = "updateWordProgress" =>
            \A e \in CallOutcomes :
                FFLIdsRead(remote', localStorage', e) = FFLIdsRead(remote, localStorage, e)
      ]_vars

C4_Witness ==
    /\ RecordedRecall(last)
    /\ ~last.correct
    /\ StoredRecord(last.wrote, last.id).isInFFL = FALSE
    /\ \A e \in CallOutcomes : last.id \notin FFLIdsRead(remote, localStorage, e)
    /\ \E r \in AllStored : r.isInFFL = TRUE

FallbackCodes == {"unavailable", "permission-denied", "failed-precondition", "not-found"}

\* C5: when the remote call of saveWordToProfile fails with code unavailable,
\* permission-denied, failed-precondition or not-found and the word is not in
\* the user's local list, the word is appended to that list (as a new record
\* at stage 0, due now, not flagged), the remote store is untouched and the
\* call returns true.
C5_FallbackSave ==
    [][ ( /\ last'.op = "saveWordToProfile"
          /\ last'.err.code \in FallbackCodes
          /\ \A i \in 1..Len(LocalRaw) : LocalRaw[i].word # last'.word )
        => /\ last'.ret = "true"
           /\ remote' = remote
           /\ localStorage'.kind = "array"
           /\ Len(localStorage'.val) = Len(LocalRaw) + 1
           /\ \A i \in 1..Len(LocalRaw) : localStorage'.val[i] = LocalRaw[i]
           /\ LET new == localStorage'.val[Len(LocalRaw) + 1]
              IN  /\ new.word = last'.word
                  /\ new.userId = UserId
                  /\ IsLocalId(new.id)
                  /\ new.srsStage = 0
                  /\ new.isInFFL = FALSE
                  /\ new.nextReviewAt = Iso(clock)
      ]_vars

C5_Witness ==
    /\ last.op = "saveWordToProfile"
    /\ last.err.code = "not-found"
    /\ last.ret = "true"
    /\ Len(LocalRaw) = 2
    /\ LocalRaw[2].word = last.word
    /\ LocalRaw[1].word # last.word

IsRead(l) == l.op \in {"getUserWords", "getDueWords", "getFFLWords"}

\* The list is the local-storage list: the stored JSON records in order, with
\* their dates as timestamps.
IsLocalList(list) ==
    /\ Len(list) = Len(LocalRaw)
    /\ \A i \in 1..Len(list) :
          /\ list[i].id = LocalRaw[i].id
          /\ list[i].word = LocalRaw[i].word
          /\ list[i].srsStage = LocalRaw[i].srsStage
          /\ list[i].isInFFL = LocalRaw[i].isInFFL
          /\ list[i].nextReviewAt = [k |-> "ts", t |-> LocalRaw[i].nextReviewAt.t]
          /\ list[i].createdAt = [k |-> "ts", t |-> LocalRaw[i].createdAt.t]

\* C6: getUserWords never fails: when the remote read fails it returns the
\* local-storage list (empty when nothing or unparsable data is stored), when
\* it succeeds exactly the remote records.
C6_ReadNeverFails ==
    IsRead(last) =>
        /\ last.ret = "list"
        /\ IF last.err.ok
           THEN last.all = remote
           ELSE /\ IsLocalList(last.all)
                /\ localStorage.kind \in {"null", "garbage", "object"} => last.all = <<>>

C6_Witness ==
    /\ IsRead(last)
    /\ ~last.err.ok
    /\ Len(last.all) = 1
    /\ Len(remote) = 1
    /\ last.all[1].word # remote[1].word

----------------------------------------------------------------------------
(* services/geminiService: fetchTtsAudio and its retry loop *)

RateLimitRetries == 3       \* maxRetries for rate-limit errors
ErrorRetries == 2           \* maxRetries for 500/503/OTHER errors
FinishOtherRetries == 2     \* retries on finishReason 'OTHER'

\* What one generateContent call can yield: a response with audio, a text
\* refusal, a finish reason without audio, an empty response, or a thrown
\* error with a status and/or a telling message.
Responses ==
    { "audio", "refusal", "finish-other", "finish-safety", "empty",
      "status-429", "quota-message", "status-500", "status-503",
      "other-message", "status-400" }

\* Lines 113-115: the classification in the catch.  The errors thrown inside
\* the try arrive there as well ("finish-other": "... (Reason: OTHER)").
IsRateLimit(r) == r \in {"status-429", "quota-message"}
IsServer(r) == r \in {"status-500", "status-503"}
IsOther(r) == r \in {"other-message", "finish-other"}
IsRetryable(r) == IsRateLimit(r) \/ IsServer(r) \/ IsOther(r)
MaxRetries(r) == IF IsRateLimit(r) THEN RateLimitRetries ELSE ErrorRetries

\* Variant: the retry test is off by one (<= instead of <).
CatchRetriesOffByOne(r, n) == IsRetryable(r) /\ n <= MaxRetries(r)

\* Line 122: isRetryable && retryCount < maxRetries
CatchRetries(r, n) == IsRetryable(r) /\ n < MaxRetries(r)

\* One pass of makeRequest(n) over response r: "return", "retry" or "throw".
MakeRequest(r, n) ==
    IF r = "audio" THEN "return"
    ELSE IF r = "finish-other" /\ n < FinishOtherRetries THEN "retry"
    ELSE IF CatchRetries(r, n) THEN "retry"
    ELSE "throw"

\* fetchTtsAudio(text): an empty cleanText throws before any request.
TtsStart(text) ==
    /\ ttsPc = "idle"
    /\ IF Trim(text) = <<>>
       THEN ttsPc' = "done" /\ ttsResult' = "error"
       ELSE ttsPc' = "waiting" /\ ttsResult' = ttsResult
    /\ UNCHANGED <<retryCount, responses>>
    /\ UNCHANGED <<dbVars, audioVars, searchVars>>

\* The service answers the request in flight.
TtsRespond(r) ==
    /\ ttsPc = "waiting"
    /\ responses' = Append(responses, r)
    /\ LET step == MakeRequest(r, retryCount)
       IN  /\ ttsPc' = IF step = "retry" THEN "backoff" ELSE "done"
           /\ ttsResult' = IF step = "return" THEN "audio"
                           ELSE IF step = "throw" THEN "error" ELSE ttsResult
    /\ UNCHANGED retryCount
    /\ UNCHANGED <<dbVars, audioVars, searchVars>>

\* The backoff timer fires: makeRequest(retryCount + 1).
TtsBackoffDone ==
    /\ ttsPc = "backoff"
    /\ ttsPc' = "waiting"
    /\ retryCount' = retryCount + 1
    /\ UNCHANGED <<ttsResult, responses>>
    /\ UNCHANGED <<dbVars, audioVars, searchVars>>

InitTts == DbIdle /\ TtsIdle /\ AudioIdle /\ SearchIdle

NextTts ==
    \/ \E text \in Texts : TtsStart(text)
    \/ \E r \in Responses : TtsRespond(r)
    \/ TtsBackoffDone

\* Every request is answered and every backoff timer fires.
FairTts ==
    /\ WF_vars(\E r \in Responses : TtsRespond(r))
    /\ WF_vars(TtsBackoffDone)

SpecTts == InitTts /\ [][NextTts]_vars /\ FairTts

\* The requests issued so far, and the responses that were followed by a retry.
Requests == Len(responses) + (IF ttsPc = "waiting" THEN 1 ELSE 0)
Retried == IF ttsPc = "done" /\ responses # <<>>
           THEN SubSeq(responses, 1, Len(responses) - 1)
           ELSE responses
CountIn(seq, P(_)) == Cardinality({i \in 1..Len(seq) : P(seq[i])})
NotRateLimit(r) == ~IsRateLimit(r)

TtsBounded ==
    /\ Requests <= 4
    /\ CountIn(Retried, IsRateLimit) <= 3
    /\ CountIn(Retried, NotRateLimit) <= 2
    /\ CountIn(responses, IsRateLimit) = 0 => Requests <= 3
    /\ ttsPc = "done" => ttsResult \in {"audio", "error"}

\* C9: fetchTtsAudio terminates with audio or an error for any sequence of
\* service responses, after at most 4 requests (at most 3 retries for
\* rate-limit errors), and at most 3 requests when no rate-limit error occurs
\* (at most 2 retries for 500/503/OTHER failures).
C9_TtsTerminatesBounded ==
    /\ []TtsBounded
    /\ (ttsPc = "waiting") ~> (ttsPc = "done")

C9_Witness ==
    /\ ttsPc = "done"
    /\ ttsResult = "audio"
    /\ Len(responses) = 4
    /\ responses[1] = "status-503"
    /\ responses[3] = "status-429"

----------------------------------------------------------------------------
(* App: the audio cache and playback *)

MaxCalls == 2           \* invocations awaiting their audio at the same time
MaxSources == 2         \* audio sources created in one behaviour
MaxTtsCalls == 2        \* text-to-speech calls in one behaviour

\* Variant: the cache is keyed by the text as given.
CacheKeyRaw(text) == text

\* text.trim().toLowerCase()
CacheKey(text) == ToLowerCase(Trim(text))

\* stopCurrentAudio: the active source, if any, is stopped.
StopCurrent(srcs, active) ==
    IF active # 0 THEN [srcs EXCEPT ![active].state = "stopped"] ELSE srcs

\* Line 743: "if user clicked something else while we were fetching, abort".
\* seen is the playingWord of the render that created this playText.
AbortsPlay(seen, text) == seen # NoWord /\ seen # text

\* playAudioBuffer: a new source is created and started.
StartSource(srcs, text) == Append(srcs, [text |-> text, state |-> "playing"])

PendingPlays == Cardinality({i \in 1..Len(calls) : calls[i].kind = "play"})

\* fetchTtsAudio throws "Text is empty" before any request.
FetchThrowsAtOnce(text) == Trim(text) = <<>>

RemoveAt(seq, i) == SubSeq(seq, 1, i - 1) \o SubSeq(seq, i + 1, Len(seq))

\* playText(text), up to the await of fetchTtsAudio (to its end when the
\* audio is cached or the fetch throws at once).
PlayText(text) ==
    /\ Len(sources) + PendingPlays < MaxSources
    /\ Len(calls) < MaxCalls
    /\ (text = <<>> \/ CacheKey(text) \in audioCache \/ FetchThrowsAtOnce(text)
        \/ Len(ttsLog) < MaxTtsCalls)
    /\ LET seen == playingWord
           stopped == StopCurrent(sources, activeSource)
           base == [NoAudio EXCEPT !.op = "playText", !.text = text, !.seen = seen]
       IN  IF text = <<>>
           THEN /\ lastAudio' = base
                /\ UNCHANGED <<playingWord, audioCache, activeSource, sources, calls, ttsLog>>
           ELSE IF CacheKey(text) \in audioCache
           THEN /\ IF AbortsPlay(seen, text)
                   THEN /\ sources' = stopped
                        /\ activeSource' = 0
                        /\ lastAudio' = [base EXCEPT !.cached = TRUE, !.stopped = activeSource]
                   ELSE /\ sources' = StartSource(stopped, text)
                        /\ activeSource' = Len(sources) + 1
                        /\ lastAudio' = [base EXCEPT !.cached = TRUE, !.stopped = activeSource,
                                                     !.started = Len(sources) + 1]
                /\ playingWord' = text
                /\ UNCHANGED <<audioCache, calls, ttsLog>>
           ELSE /\ sources' = stopped
                /\ activeSource' = 0
                /\ lastAudio' = [base EXCEPT !.stopped = activeSource]
                /\ IF FetchThrowsAtOnce(text)
                   THEN /\ playingWord' = NoWord
                        /\ UNCHANGED <<calls, ttsLog>>
                   ELSE /\ playingWord' = text
                        /\ calls' = Append(calls, [kind |-> "play", text |-> text,
                                                   seen |-> seen, stopped |-> activeSource])
                        /\ ttsLog' = Append(ttsLog, text)
                /\ UNCHANGED audioCache
    /\ UNCHANGED <<dbVars, ttsVars, searchVars>>

\* playText after the await: fetchTtsAudio / decodeAudioData succeeded
\* ("audio") or threw ("error").
PlayResume(i, outcome) ==
    /\ i \in 1..Len(calls)
    /\ calls[i].kind = "play"
    /\ LET c == calls[i]
           base == [NoAudio EXCEPT !.op = "playResume", !.text = c.text, !.seen = c.seen,
                                   !.outcome = outcome, !.stopped = c.stopped]
       IN  /\ calls' = RemoveAt(calls, i)
           /\ IF outcome = "error"
              THEN /\ playingWord' = NoWord
                   /\ lastAudio' = base
                   /\ UNCHANGED <<audioCache, activeSource, sources>>
              ELSE /\ audioCache' = audioCache \cup {CacheKey(c.text)}
                   /\ playingWord' = playingWord
                   /\ IF AbortsPlay(c.seen, c.text)
                      THEN /\ lastAudio' = base
                           /\ UNCHANGED <<activeSource, sources>>
                      ELSE /\ sources' = StartSource(sources, c.text)
                           /\ activeSource' = Len(sources) + 1
                           /\ lastAudio' = [base EXCEPT !.started = Len(sources) + 1]
    /\ UNCHANGED ttsLog
    /\ UNCHANGED <<dbVars, ttsVars, searchVars>>

\* Variant: prefetchAudio without its try/catch.
PrefetchThrowsUncaught(outcome) == outcome = "error"

\* The catch of prefetchAudio swallows every error of the fetch and decode.
PrefetchThrows(outcome) == FALSE

\* prefetchAudio(text), up to the await of fetchTtsAudio: its effect on
\* the audio state.
PrefetchUntilAwait(text) ==
    /\ Len(calls) < MaxCalls
    /\ (text = <<>> \/ CacheKey(text) \in audioCache \/ FetchThrowsAtOnce(text)
        \/ Len(ttsLog) < MaxTtsCalls)
    /\ lastAudio' = [NoAudio EXCEPT !.op = "prefetchAudio", !.text = text,
                                    !.cached = CacheKey(text) \in audioCache,
                                    !.threw = /\ text # <<>>
                                              /\ CacheKey(text) \notin audioCache
                                              /\ FetchThrowsAtOnce(text)
                                              /\ PrefetchThrows("error")]
    /\ IF text = <<>> \/ CacheKey(text) \in audioCache \/ FetchThrowsAtOnce(text)
       THEN UNCHANGED <<calls, ttsLog>>
       ELSE /\ calls' = Append(calls, [kind |-> "prefetch", text |-> text,
                                       seen |-> NoWord, stopped |-> 0])
            /\ ttsLog' = Append(ttsLog, text)
    /\ UNCHANGED <<playingWord, audioCache, activeSource, sources>>

\* prefetchAudio(text) called on its own (onPrefetch of Quiz and Exam).
PrefetchAudio(text) ==
    /\ PrefetchUntilAwait(text)
    /\ UNCHANGED <<dbVars, ttsVars, searchVars>>

\* prefetchAudio after the await: the audio is cached, a failure is silent.
PrefetchAfterAwait(i, outcome) ==
    /\ i \in 1..Len(calls)
    /\ calls[i].kind = "prefetch"
    /\ calls' = RemoveAt(calls, i)
    /\ audioCache' = IF outcome = "audio"
                     THEN audioCache \cup {CacheKey(calls[i].text)}
                     ELSE audioCache
    /\ lastAudio' = [NoAudio EXCEPT !.op = "prefetchResume", !.text = calls[i].text,
                                    !.outcome = outcome,
                                    !.threw = PrefetchThrows(outcome)]
    /\ UNCHANGED <<playingWord, activeSource, sources, ttsLog>>

PrefetchResume(i, outcome) ==
    /\ PrefetchAfterAwait(i, outcome)
    /\ UNCHANGED <<dbVars, ttsVars, searchVars>>

\* source.onended of a source that played to its end.
SourceEnded(id) ==
    /\ id \in 1..Len(sources)
    /\ sources[id].state = "playing"
    /\ sources' = [sources EXCEPT ![id].state = "ended"]
    /\ IF activeSource = id
       THEN playingWord' = NoWord /\ activeSource' = 0
       ELSE UNCHANGED <<playingWord, activeSource>>
    /\ lastAudio' = [NoAudio EXCEPT !.op = "onended", !.text = sources[id].text]
    /\ UNCHANGED <<audioCache, calls, ttsLog>>
    /\ UNCHANGED <<dbVars, ttsVars, searchVars>>

FetchOutcomes == {"audio", "error"}

InitAudio == DbIdle /\ TtsIdle /\ AudioIdle /\ SearchIdle

NextAudio ==
    \/ \E text \in Texts : PlayText(text)
    \/ \E i \in 1..MaxCalls, o \in FetchOutcomes : PlayResume(i, o)
    \/ \E text \in Texts : PrefetchAudio(text)
    \/ \E i \in 1..MaxCalls, o \in FetchOutcomes : PrefetchResume(i, o)
    \/ \E id \in 1..MaxSources : SourceEnded(id)

SpecAudio == InitAudio /\ [][NextAudio]_vars

TypeOkAudio ==
    /\ activeSource \in 0..Len(sources)
    /\ Len(sources) <= MaxSources
    /\ Len(calls) <= MaxCalls
    /\ Len(ttsLog) <= MaxTtsCalls

----------------------------------------------------------------------------
(* Properties of the audio pipeline *)

\* The latest handler is a playText that found the audio of another text
\* playing (and stopped its source, lastAudio.stopped).
Interrupts ==
    /\ lastAudio.op \in {"playText", "playResume"}
    /\ lastAudio.stopped # 0
    /\ sources[lastAudio.stopped].text # lastAudio.text

StartedOwnAudio ==
    /\ lastAudio.started # 0
    /\ sources[lastAudio.started] = [text |-> lastAudio.text, state |-> "playing"]

C8_CachedTextNeverRefetched ==
    [][ /\ audioCache \subseteq audioCache'
        /\ ( /\ lastAudio'.op \in {"playText", "prefetchAudio"}
             /\ ToLowerCase(Trim(lastAudio'.text)) \in audioCache )
           => (ttsLog' = ttsLog /\ calls' = calls)
      ]_vars

C8_Witness ==
    /\ lastAudio.op = "playText"
    /\ lastAudio.text = <<"A", " ">>
    /\ lastAudio.cached
    /\ lastAudio.started # 0
    /\ ttsLog = << <<"a">> >>
    /\ calls = <<>>

----------------------------------------------------------------------------
(* Further properties of the data layer *)

WordsOf(list) == {list[i].word : i \in 1..Len(list)}

\* The words for which a saveWordToProfile has returned true: the saves are
\* the only writers of new records.
SavedWords == WordsOf(remote) \cup WordsOf(LocalRaw)

\* The error falls back to local storage: one of the four codes, or a message
\* that mentions permissions.
FallsBack(e) == ~e.ok /\ (e.code \in FallbackCodes \/ e.msg = "permissions")

\* The store a saveWordToProfile(w) call consults holds w: the remote
\* collection when the duplicate query succeeds; the local list when the
\* query, or the addDoc that follows an empty snapshot, fails with an error
\* that falls back.
ConsultedStoreHas(w, eq, ea) ==
    \/ eq.ok /\ w \in WordsOf(remote)
    \/ /\ w \in WordsOf(LocalRaw)
       /\ \/ FallsBack(eq)
          \/ eq.ok /\ w \notin WordsOf(remote) /\ FallsBack(ea)

\* The outcomes of the two remote calls of a save: addDoc is called only
\* after the query has succeeded.
SaveOutcomes == {<<eq, Ok>> : eq \in Outcomes} \cup {<<Ok, ea>> : ea \in Outcomes}

\* C11: saveWordToProfile rejects with "You have already saved this word."
\* whenever the store it consults already holds a record with the same word,
\* and leaves both stores unchanged.
C11_DuplicateRejected ==
    [][ (last'.op = "saveWordToProfile" /\ last'.word \in SavedWords) =>
            \A o \in SaveOutcomes :
                (ConsultedStoreHas(last'.word, o[1], o[2]) /\ SaveWord(last'.word, o[1], o[2])) =>
                    /\ last'.ret = "throw"
                    /\ last'.err = AlreadySaved
                    /\ remote' = remote
                    /\ localStorage' = localStorage
      ]_vars

C11_Witness ==
    /\ last.op = "saveWordToProfile"
    /\ last.ret = "throw"
    /\ last.err = AlreadySaved
    /\ last.word \in WordsOf(LocalRaw)
    /\ last.word \notin WordsOf(remote)

\* The stored records of the two stores rem and ls.
RawOf(ls) == IF ls.kind = "array" THEN ls.val ELSE <<>>
RecordsOf(rem, ls) == Range(rem) \cup Range(RawOf(ls))

FlaggedIn(rem, ls, id) ==
    \E r \in RecordsOf(rem, ls) : r.id = id /\ r.isInFFL = TRUE

\* Per record: its id, stage and time of the next review.
ProgressOf(rem, ls) ==
    { <<r.id, r.srsStage, r.nextReviewAt.t>> : r \in RecordsOf(rem, ls) }

\* C12 as stated: in the exam 'I Forgot' sets isInFFL = true on the word's
\* stored record, so that a getFFLWords returns it; 'I Remember' changes no
\* record; neither answer changes a stage or a time of next review.
C12_ExamFlagsForgotten ==
    [][ /\ last'.op = "markWordAsForgot" =>
              /\ FlaggedIn(remote', localStorage', last'.id)
              /\ \E e \in CallOutcomes :
                    last'.id \in FFLIdsRead(remote', localStorage', e)
        /\ last'.op = "examRemember" =>
              (remote' = remote /\ localStorage' = localStorage)
        /\ last'.op \in {"markWordAsForgot", "examRemember"} =>
              ProgressOf(remote', localStorage') = ProgressOf(remote, localStorage)
      ]_vars

----------------------------------------------------------------------------
(* Further properties of the audio pipeline *)

\* C13: prefetchAudio is silent: whatever the outcome of the text-to-speech
\* call it does not reject, it changes neither playingWord nor the active
\* source nor any source, a failure leaves the cache unchanged and a success
\* adds only the entry of the trimmed, lower-cased text.
C13_PrefetchSilent ==
    [][ lastAudio'.op \in {"prefetchAudio", "prefetchResume"} =>
            /\ ~lastAudio'.threw
            /\ playingWord' = playingWord
            /\ activeSource' = activeSource
            /\ sources' = sources
            /\ audioCache' =
                  IF lastAudio'.op = "prefetchResume" /\ lastAudio'.outcome = "audio"
                  THEN audioCache \cup {ToLowerCase(Trim(lastAudio'.text))}
                  ELSE audioCache
      ]_vars

C13_Witness ==
    /\ lastAudio.op = "prefetchResume"
    /\ lastAudio.outcome = "error"
    /\ activeSource # 0
    /\ playingWord # NoWord
    /\ audioCache # {}
    /\ ToLowerCase(Trim(lastAudio.text)) \notin audioCache

\* The sources that are playing: started, neither stopped nor ended.
Playing == {i \in 1..Len(sources) : sources[i].state = "playing"}

\* C14 as stated: at most one audio source is playing at any time.
C14_AtMostOnePlaying == Cardinality(Playing) <= 1

\* Another text was requested by a playText, still awaiting its audio, that
\* was called after the playText awaiting as calls[i].
RequestedSince(i) ==
    \E j \in (i + 1)..Len(calls) :
        calls[j].kind = "play" /\ calls[j].text # calls[i].text

\* C15 as stated: when another text is requested via playText while an
\* earlier playText is still fetching its audio, the earlier request starts
\* no playback when its fetch completes.
C15_EarlierRequestAborted ==
    [][ \A i \in 1..MaxCalls :
            (PlayResume(i, "audio") /\ RequestedSince(i)) =>
                (sources' = sources /\ activeSource' = activeSource)
      ]_vars

\* Every pending fetch completes (fetchTtsAudio terminates) and every playing
\* source plays to its end; the user's requests are under no obligation.
FairAudio ==
    /\ WF_vars(\E i \in 1..MaxCalls, o \in FetchOutcomes : PlayResume(i, o))
    /\ WF_vars(\E i \in 1..MaxCalls, o \in FetchOutcomes : PrefetchResume(i, o))
    /\ \A id \in 1..MaxSources : WF_vars(SourceEnded(id))

SpecAudioLive == InitAudio /\ [][NextAudio]_vars /\ FairAudio

\* C16 as stated: after any playText request playingWord eventually returns
\* to null, so the buttons disabled while it is set are enabled again.
C16_PlayingWordClears == (playingWord # NoWord) ~> (playingWord = NoWord)

----------------------------------------------------------------------------
(* Durability of saved words *)

\* C17 as stated: a word for which saveWordToProfile returned true is in the
\* result of every later getUserWords call.
C17_Original ==
    IsRead(last) => SavedWords \subseteq WordsOf(last.all)

\* C17 (amended): a word for which saveWordToProfile returned true is in the
\* store the call wrote (remote collection or local list) and stays there, no
\* operation deletes it; a later getUserWords returns the words of the one
\* store it reads: the remote collection when the remote read succeeds, the
\* local list when it fails.
C17_SavedWordStaysInItsStore ==
    [][ /\ WordsOf(remote) \subseteq WordsOf(remote')
        /\ WordsOf(LocalRaw) \subseteq WordsOf(RawOf(localStorage'))
        /\ (last'.op = "saveWordToProfile" /\ last'.ret = "true") =>
              last'.word \in (IF last'.wrote = "remote"
                              THEN WordsOf(remote')
                              ELSE WordsOf(RawOf(localStorage')))
        /\ IsRead(last') =>
              WordsOf(last'.all) = (IF last'.err.ok
                                    THEN WordsOf(remote')
                                    ELSE WordsOf(RawOf(localStorage')))
      ]_vars

C17_Witness ==
    /\ IsRead(last)
    /\ last.err.ok
    /\ Len(remote) = 1
    /\ Len(LocalRaw) = 1
    /\ WordsOf(last.all) = WordsOf(remote)
    /\ WordsOf(LocalRaw) # WordsOf(remote)
    /\ LocalRaw[1].srsStage > 0

\* The stage and the day of the next review that updateWordProgress computes
\* for the call recorded in l.
ComputedStage(l) ==
    IF l.correct THEN (IF l.stage + 1 < 6 THEN l.stage + 1 ELSE 6)
    ELSE (IF l.stage - 1 > 0 THEN l.stage - 1 ELSE 0)

ComputedReview(l) ==
    IF l.correct THEN l.now + <<1, 3, 7, 14, 30, 90>>[ComputedStage(l)] ELSE l.now

\* C18 as stated: when updateWordProgress completes for an existing word, the
\* word's stored record carries the newly computed srsStage and nextReviewAt,
\* also when the remote update fails.
C18_ProgressAlwaysStored ==
    last.op = "updateWordProgress" =>
        \E r \in AllStored :
            /\ r.id = last.id
            /\ r.srsStage = ComputedStage(last)
            /\ r.nextReviewAt.t = ComputedReview(last)

----------------------------------------------------------------------------
(* App: the search result and its saves, with saveWordToProfile split at   *)
(* its awaits (getDocs of the duplicate query, then addDoc)                *)

MaxSaves == 2           \* saveWordToProfile calls in flight at the same time

MaxLoops == 2           \* prefetch loops running at the same time

\* The text spoken for a word of the vocabulary.
Spoken(w) == IF w = "abate" THEN <<"a">> ELSE <<"b">>

\* The synonyms, antonyms and collocations of a result that handleSearch
\* adds to toPrefetch after the word itself.
RelatedLists == { <<>>, << <<"A", " ">> >>, << <<"b">> >> }

\* handleSearch after its automatic save has settled, whatever the outcome:
\* the detached prefetch loop over toPrefetch is started (and loading is set
\* to false while it runs).  handleSaveWord starts no loop.
StartPrefetch(i) ==
    IF saves[i].by = "auto"
    THEN \E rest \in RelatedLists :
            loops' = Append(loops, [list |-> <<Spoken(saves[i].word)>> \o rest,
                                    pos |-> 1, pc |-> "call"])
    ELSE UNCHANGED loops

\* handleSearch is between setLoading(true) and its finally: the Search
\* button is disabled.
Loading == \E i \in 1..Len(saves) : saves[i].by = "auto"

\* The catch of saveWordToProfile for the caught error: what local storage
\* holds afterwards and how the call ends.
SaveCatch(w, caught, ls, now) ==
    LET list == deserializeWords(OrEmptyArray(ls))
    IN  IF IsFirestoreError(caught)
        THEN IF HasWord(list, w)
             THEN [ls |-> ls, ret |-> "throw", err |-> AlreadySaved,
                   wrote |-> "none", id |-> NoId]
             ELSE [ls |-> StringifyWords(
                              Append(list, NewWord(LocalId(Len(list) + 1), w, now)), now),
                   ret |-> "true", err |-> caught,
                   wrote |-> "local", id |-> LocalId(Len(list) + 1)]
        ELSE [ls |-> ls, ret |-> "throw", err |-> caught,
              wrote |-> "none", id |-> NoId]

\* handleSearch / handleSaveWord: setIsSaved(true) when the save returned, or
\* threw a message that includes "already saved".
MarksSaved(res) == res.ret = "true" \/ res.err = AlreadySaved

\* The call saves[i] ends in the catch with the caught error.
SaveEndsCaught(i, caught) ==
    LET res == SaveCatch(saves[i].word, caught, localStorage, clock)
    IN  /\ localStorage' = res.ls
        /\ remote' = remote
        /\ saves' = RemoveAt(saves, i)
        /\ isSaved' = (isSaved \/ MarksSaved(res))
        /\ last' = [NoLast EXCEPT !.op = "saveWordToProfile", !.word = saves[i].word,
                                  !.now = clock, !.err = res.err, !.ret = res.ret,
                                  !.wrote = res.wrote, !.id = res.id]
        /\ StartPrefetch(i)

\* handleSearch when fetchWordAnalysis has returned the result for w: the
\* result is displayed and the automatic save is started.
Search(w) ==
    /\ view = "search"
    /\ ~Loading
    /\ Len(saves) < MaxSaves
    /\ Len(loops) < MaxLoops
    /\ StoredCount + Len(saves) < MaxRecords
    /\ data' = w
    /\ isSaved' = FALSE
    /\ saves' = Append(saves, [word |-> w, pc |-> "query", by |-> "auto"])
    /\ last' = NoLast
    /\ UNCHANGED <<clock, remote, localStorage, view, words, currentIndex,
                   isComplete, timers, sched, answered, loops>>
    /\ UNCHANGED <<ttsVars, audioVars>>

\* handleSaveWord: a click on the save button of the result card, which is
\* disabled only when isSaved.
ManualSave ==
    /\ view = "search"
    /\ data # ""
    /\ ~isSaved
    /\ Len(saves) < MaxSaves
    /\ StoredCount + Len(saves) < MaxRecords
    /\ saves' = Append(saves, [word |-> data, pc |-> "query", by |-> "manual"])
    /\ last' = NoLast
    /\ UNCHANGED <<clock, remote, localStorage, view, words, currentIndex,
                   isComplete, timers, sched, data, isSaved, answered, loops>>
    /\ UNCHANGED <<ttsVars, audioVars>>

\* The duplicate query of saves[i] settles with outcome eq.
SaveQueryDone(i, eq) ==
    /\ i \in 1..Len(saves)
    /\ saves[i].pc = "query"
    /\ IF eq.ok /\ ~HasWord(remote, saves[i].word)
       THEN /\ saves' = [saves EXCEPT ![i].pc = "add"]
            /\ last' = NoLast
            /\ UNCHANGED <<remote, localStorage, isSaved, loops>>
       ELSE SaveEndsCaught(i, IF eq.ok THEN AlreadySaved ELSE eq)
    /\ UNCHANGED <<clock, view, words, currentIndex, isComplete, timers, sched, data,
                   answered>>
    /\ UNCHANGED <<ttsVars, audioVars>>

\* The addDoc of saves[i] settles with outcome ea.
SaveAddDone(i, ea) ==
    /\ i \in 1..Len(saves)
    /\ saves[i].pc = "add"
    /\ IF ea.ok
       THEN /\ remote' = Append(remote,
                                NewWord(RemoteId(Len(remote) + 1), saves[i].word, clock))
            /\ localStorage' = localStorage
            /\ saves' = RemoveAt(saves, i)
            /\ isSaved' = TRUE
            /\ last' = [NoLast EXCEPT !.op = "saveWordToProfile", !.word = saves[i].word,
                                      !.now = clock, !.ret = "true", !.wrote = "remote",
                                      !.id = RemoteId(Len(remote) + 1)]
            /\ StartPrefetch(i)
       ELSE SaveEndsCaught(i, ea)
    /\ UNCHANGED <<clock, view, words, currentIndex, isComplete, timers, sched, data,
                   answered>>
    /\ UNCHANGED <<ttsVars, audioVars>>

NextSave ==
    \/ \E w \in WordStrings : Search(w)
    \/ ManualSave
    \/ \E i \in 1..MaxSaves, eq \in Outcomes : SaveQueryDone(i, eq)
    \/ \E i \in 1..MaxSaves, ea \in Outcomes : SaveAddDone(i, ea)

SpecSave == InitDb /\ [][NextSave]_vars

TypeOkSave ==
    /\ data \in WordStrings \cup {""}
    /\ isSaved \in BOOLEAN
    /\ Len(saves) <= MaxSaves

NoTwoSame(list) ==
    \A i, j \in 1..Len(list) : list[i].word = list[j].word => i = j

\* C19 as stated: neither store of a user ever holds two records with the
\* same word string, under every interleaving of the automatic save that
\* follows a search and a manual save click on the same result.
C19_NoDuplicateRecords == NoTwoSame(remote) /\ NoTwoSame(LocalRaw)

----------------------------------------------------------------------------
(* FFL practice *)

\* Per stored record: its id, stage, dates of review and forgotten flag.
ReviewFieldsOf(rem, ls) ==
    { <<r.id, r.srsStage, r.nextReviewAt, r.lastReviewedAt, r.isInFFL>> :
        r \in RecordsOf(rem, ls) }

\* C20: in quiz mode 'ffl' no answer calls updateWordProgress, and during the
\* session every stored word keeps its srsStage, nextReviewAt, lastReviewedAt
\* and isInFFL.
C20_FFLPracticeOnly ==
    [][ view = "ffl" =>
            /\ last'.op # "updateWordProgress"
            /\ ReviewFieldsOf(remote, localStorage)
                  \subseteq ReviewFieldsOf(remote', localStorage')
      ]_vars

C20_Witness ==
    /\ view = "ffl"
    /\ last.op = "fflAnswer"
    /\ ~last.correct
    /\ isComplete
    /\ \E r \in AllStored : r.id = last.id /\ r.isInFFL = TRUE /\ r.srsStage > 0

----------------------------------------------------------------------------
(* Sessions over several words: answer clicks and advance timers *)

\* A save that reaches Firestore.
SaveOnline(w) == SaveWord(w, Ok, Ok)

\* The session specification: up to MaxRecords saved words, the three kinds
\* of session, answer clicks while advance timers are pending, and the
\* timers firing.
NextSession ==
    \/ \E w \in WordStrings : SaveOnline(w)
    \/ \E e \in CallOutcomes : OpenDueQuiz(e)
    \/ \E e \in CallOutcomes : OpenFFLQuiz(e)
    \/ \E e \in CallOutcomes : OpenExam(e)
    \/ \E c \in BOOLEAN, e \in CallOutcomes : DueAnswer(c, e)
    \/ \E c \in BOOLEAN : FFLAnswer(c)
    \/ \E f \in BOOLEAN, e \in CallOutcomes : ExamAnswer(f, e)
    \/ TimerFire
    \/ CloseSession

SpecSession == InitDb /\ [][NextSession]_vars

\* C21: in a due-review quiz over n loaded words, updateWordProgress is called
\* exactly once per word, in the order of presentation and with the stage the
\* word had when the session was loaded, and the session is complete exactly
\* when the n-th answer has been given.
C21_EachWordAnsweredOnce ==
    (view = "due" /\ Len(words) > 0) =>
        /\ Len(answered) <= Len(words)
        /\ \A k \in 1..Len(answered) :
              /\ k <= Len(words)
              /\ answered[k] = [id |-> words[k].id, stage |-> words[k].srsStage]
        /\ isComplete <=> Len(answered) = Len(words)

\* C22: in a quiz or exam session with n >= 1 loaded words, currentIndex
\* stays within 0..n-1, whatever the answer clicks and timer firings.
C22_IndexInRange ==
    (view # "search" /\ Len(words) >= 1) => currentIndex \in 0..(Len(words) - 1)

----------------------------------------------------------------------------
(* App: the prefetch loops started by searches *)

\* A request of prefetchAudio awaits fetchTtsAudio.
PrefetchInFlight == { i \in 1..Len(calls) : calls[i].kind = "prefetch" }

\* Loop k calls prefetchAudio(word) for its next text and awaits it; a call
\* that returns before any request (empty text, cached audio, a fetch that
\* throws at once) is over at once and the loop goes on to its timer.
LoopCall(k) ==
    /\ k \in 1..Len(loops)
    /\ loops[k].pc = "call"
    /\ PrefetchUntilAwait(loops[k].list[loops[k].pos])
    /\ loops' = [loops EXCEPT ![k].pc = IF calls' = calls THEN "delay" ELSE "fetch"]
    /\ UNCHANGED <<data, isSaved, saves>>
    /\ UNCHANGED <<dbVars, ttsVars>>

\* The request calls[i] of loop k settles: prefetchAudio returns and the loop
\* awaits its 1500 ms timer.
LoopFetchDone(k, i, outcome) ==
    /\ k \in 1..Len(loops)
    /\ loops[k].pc = "fetch"
    /\ i \in 1..Len(calls)
    /\ calls[i].text = loops[k].list[loops[k].pos]
    /\ PrefetchAfterAwait(i, outcome)
    /\ loops' = [loops EXCEPT ![k].pc = "delay"]
    /\ UNCHANGED <<data, isSaved, saves>>
    /\ UNCHANGED <<dbVars, ttsVars>>

\* The 1500 ms timer of loop k fires: the loop takes its next text, or ends.
LoopDelayDone(k) ==
    /\ k \in 1..Len(loops)
    /\ loops[k].pc = "delay"
    /\ loops' = IF loops[k].pos < Len(loops[k].list)
                THEN [loops EXCEPT ![k].pos = @ + 1, ![k].pc = "call"]
                ELSE RemoveAt(loops, k)
    /\ UNCHANGED <<data, isSaved, saves>>
    /\ UNCHANGED <<dbVars, ttsVars, audioVars>>

\* The prefetch specification: searches by a signed-in user whose saves
\* reach Firestore, and the prefetch loops they start.
NextPrefetch ==
    \/ \E w \in WordStrings : Search(w)
    \/ \E i \in 1..MaxSaves : SaveQueryDone(i, Ok)
    \/ \E i \in 1..MaxSaves : SaveAddDone(i, Ok)
    \/ \E k \in 1..MaxLoops : LoopCall(k)
    \/ \E k \in 1..MaxLoops, i \in 1..MaxCalls, o \in FetchOutcomes : LoopFetchDone(k, i, o)
    \/ \E k \in 1..MaxLoops : LoopDelayDone(k)

SpecPrefetch == InitDb /\ [][NextPrefetch]_vars

TypeOkPrefetch ==
    /\ Len(loops) <= MaxLoops
    /\ \A k \in 1..Len(loops) :
          /\ loops[k].pos \in 1..Len(loops[k].list)
          /\ loops[k].pc \in {"call", "fetch", "delay"}
    /\ Cardinality(PrefetchInFlight) = Cardinality({k \in 1..Len(loops) : loops[k].pc = "fetch"})

\* C23: the prefetch requests triggered by searches are sequential: at most
\* one of them is in flight at any time, also when a second search is
\* submitted while the loop of the first search still runs.
C23_PrefetchSequential == Cardinality(PrefetchInFlight) <= 1

====
